---- MODULE Spec2Model ----
(***************************************************************************)
(* The poll-check-notify loop of homework.py (main and the functions it    *)
(* calls) as a state machine.                                               *)
(*                                                                         *)
(* Strings are sequences of string tokens, concatenation is \o, and two    *)
(* strings are equal when their token sequences are.  The Russian literals *)
(* of the source are written in Latin transliteration.                     *)
(***************************************************************************)
EXTENDS Naturals, Sequences, FiniteSets

VARIABLES
    tokens,      \* PRACTICUM_TOKEN, TELEGRAM_TOKEN, TELEGRAM_CHAT_ID (homework.py 14-16)
    pc,          \* position of main (or of a direct call, see SpecCheckResponse)
    timestamp,   \* main's local timestamp: the cursor
    prev_msg,    \* main's local prev_msg: the last-sent message
    response,    \* main's local response
    homeworks,   \* main's local homeworks
    message,     \* main's local message
    error,       \* the exception being handled or propagating
    http,        \* what requests.get did in the last call of get_api_answer
    from_date,   \* params['from_date'] of the last request
    query_time,  \* the wall clock when the last request was made
    last_call,   \* the text last handed to bot.send_message inside the loop
    sent,        \* the texts handed to bot.send_message in this iteration
    sleeps,      \* the durations slept since the last call of get_api_answer
    validated,   \* check_response returned in the latest iteration
    last_date,   \* the current_date of the latest response that check_response passed
    after_valid, \* check_response returned in the iteration before this one
    raised_by,   \* the call of the try block that raised in this iteration
    prev_before, \* prev_msg when this iteration began
    cursor_before, \* timestamp when this iteration began
    api_called,  \* get_api_answer was called at least once
    notified,    \* bot.send_message was called at least once
    exit_status  \* what main passed to sys.exit

vars == <<tokens, pc, timestamp, prev_msg, response, homeworks, message, error,
          http, from_date, query_time, last_call, sent, sleeps, validated,
          last_date, after_valid, raised_by, prev_before, cursor_before,
          api_called, notified, exit_status>>

----------------------------------------------------------------------------
(* Bounds of the inputs. *)

\* current_date values of the API are null or 0..MaxDate
MaxDate == 1
\* time.time() returns a value in 1..MaxClock
MaxClock == 2
\* the homeworks list of a response has at most MaxHomeworks elements
MaxHomeworks == 1

----------------------------------------------------------------------------
(* Program constants. *)

RETRY_PERIOD == 600
HTTP_OK == 200

ENDPOINT == "https://practicum.yandex.ru/api/user_api/homework_statuses/"

VerdictKeys == {"approved", "reviewing", "rejected"}

HOMEWORK_VERDICTS ==
    [s \in VerdictKeys |->
        CASE s = "approved"  -> "Rabota proverena: revjueru vsjo ponravilos. Ura!"
          [] s = "reviewing" -> "Rabota vzjata na proverku revjuerom."
          [] s = "rejected"  -> "Rabota proverena: u revjuera est zamechanija."]

START_MESSAGE == <<"Bot nachal rabotu">>
NO_NEW_STATUSES == <<"Net novyh statusov">>
FAIL_PREFIX == "Sboj v rabote programmy: "
EXIT_MESSAGE == <<"Otsutstvuet token. Bot ostanovlen!">>
EMPTY == <<>>

----------------------------------------------------------------------------
(* Values: environment variables, JSON values, strings. *)

\* os.getenv gives None for an unset variable, else its (maybe empty) text
EnvValues == {"None", "", "secret"}

EnvTruthy(v) == v \notin {"None", ""}

\* a current_date (or timestamp) value: JSON null or an integer
NullDate == [k |-> "null", n |-> 0]

IntDate(i) == [k |-> "int", n |-> i]

Dates == {NullDate} \cup {IntDate(i) : i \in 0..MaxDate}

Clock == 1..MaxClock

\* Python truth of a date value: None and 0 are falsy
Truthy(d) == d.k = "int" /\ d.n # 0

Digit(n) == CASE n = 0 -> "0" [] n = 1 -> "1" [] n = 2 -> "2" [] n = 3 -> "3"
              [] n = 4 -> "4" [] n = 5 -> "5" [] n = 6 -> "6" [] n = 7 -> "7"
              [] n = 8 -> "8" [] n = 9 -> "9"

RECURSIVE IntStr(_)
\* str(n) of a natural number, as a sequence of digit tokens
IntStr(n) == IF n < 10 THEN <<Digit(n)>> ELSE IntStr(n \div 10) \o <<Digit(n % 10)>>

\* str(d) of a date value
DateStr(d) == IF d.k = "null" THEN <<"None">> ELSE IntStr(d.n)

\* repr(s) of a string: the text between quotes (escapes inside are not modelled)
Repr(s) == <<"'">> \o s \o <<"'">>

\* whether text t holds token sequence s as a contiguous part
Contains(t, s) ==
    \E i \in 0..(Len(t) - Len(s)) : \A j \in 1..Len(s) : t[i + j] = s[j]

\* an element of the homeworks list: a JSON object with optional keys
\* homework_name and status, or a JSON string
Names == {"hw1", "hw2"}

Statuses == VerdictKeys \cup {"unknown"}

NotADict == [isDict |-> FALSE, hasName |-> FALSE, homework_name |-> "",
             hasStatus |-> FALSE, status |-> ""]

Record(hasName, name, hasStatus, status) ==
    [isDict |-> TRUE, hasName |-> hasName, homework_name |-> name,
     hasStatus |-> hasStatus, status |-> status]

Homeworks ==
    {NotADict}
    \cup {Record(TRUE, n, TRUE, s) : n \in Names, s \in Statuses}
    \cup {Record(FALSE, "", TRUE, s) : s \in Statuses}
    \cup {Record(TRUE, n, FALSE, "") : n \in Names}
    \cup {Record(FALSE, "", FALSE, "")}

\* the elements after the first one of a homeworks list
OlderHomeworks == {Record(TRUE, "hw0", TRUE, "approved"), NotADict}

RECURSIVE OlderLists(_)
OlderLists(n) ==
    IF n = 0 THEN {<<>>}
    ELSE OlderLists(n - 1)
         \cup {<<h>> \o t : h \in OlderHomeworks,
                            t \in {u \in OlderLists(n - 1) : Len(u) = n - 1}}

HomeworkLists ==
    {<<>>} \cup {<<h>> \o t : h \in Homeworks, t \in OlderLists(MaxHomeworks - 1)}

\* the homeworks lists of the responses that lack current_date
UndatedLists == {<<>>, <<Record(TRUE, "hw1", TRUE, "approved")>>}

\* a parsed JSON body: an object with optional keys homeworks and current_date
\* (homeworks a list or a string), or a JSON array
JsonBody(isDict, hasHw, isList, hws, hasDate, date) ==
    [isDict |-> isDict, hasHomeworks |-> hasHw, homeworksIsList |-> isList,
     homeworks |-> hws, hasDate |-> hasDate, current_date |-> date]

NoResponse == JsonBody(FALSE, FALSE, FALSE, <<>>, FALSE, NullDate)

Responses ==
    {NoResponse}
    \cup {JsonBody(TRUE, TRUE, TRUE, l, TRUE, d) : l \in HomeworkLists, d \in Dates}
    \cup {JsonBody(TRUE, TRUE, TRUE, l, FALSE, NullDate) : l \in UndatedLists}
    \cup {JsonBody(TRUE, TRUE, FALSE, <<>>, TRUE, d) : d \in Dates}
    \cup {JsonBody(TRUE, TRUE, FALSE, <<>>, FALSE, NullDate)}
    \cup {JsonBody(TRUE, FALSE, FALSE, <<>>, TRUE, d) : d \in Dates}
    \cup {JsonBody(TRUE, FALSE, FALSE, <<>>, FALSE, NullDate)}

\* repr of a homeworks element
HomeworkRepr(h) ==
    IF ~h.isDict THEN <<"'junk'">>
    ELSE <<"{">>
         \o (IF h.hasName THEN <<"'homework_name': ", h.homework_name, ", ">> ELSE <<>>)
         \o (IF h.hasStatus THEN <<"'status': ", h.status>> ELSE <<>>)
         \o <<"}">>

RECURSIVE ListRepr(_)
ListRepr(l) == IF l = <<>> THEN <<>> ELSE HomeworkRepr(Head(l)) \o <<", ">> \o ListRepr(Tail(l))

\* str(response), as the f-strings of check_response format it
ResponseRepr(r) ==
    IF ~r.isDict THEN <<"[]">>
    ELSE <<"{">>
         \o (IF r.hasHomeworks
             THEN <<"'homeworks': ">>
                  \o (IF r.homeworksIsList THEN <<"[">> \o ListRepr(r.homeworks) \o <<"]">>
                      ELSE <<"'junk'">>)
                  \o <<", ">>
             ELSE <<>>)
         \o (IF r.hasDate THEN <<"'current_date': ">> \o DateStr(r.current_date) ELSE <<>>)
         \o <<"}">>

\* type(x) as an f-string formats it
TypeStr(isDict) == IF isDict THEN <<"<class 'dict'>">> ELSE <<"<class 'list'>">>

----------------------------------------------------------------------------
(* Exceptions: the class, str(e) and repr(e). *)

NoError == [cls |-> "", str |-> <<>>, repr |-> <<>>]

\* an exception built from one string: str(KeyError(s)) is repr(s), str of any
\* other class is s
Exc(cls, text) ==
    [cls |-> cls,
     str |-> IF cls = "KeyError" THEN Repr(text) ELSE text,
     repr |-> <<cls, "(">> \o Repr(text) \o <<")">>]

\* WrongResponseCode(message, error): str of an exception with two arguments
\* is the str of the tuple of its arguments
Exc2(cls, text, inner) ==
    [cls |-> cls,
     str |-> <<"(">> \o Repr(text) \o <<", ">> \o inner.repr \o <<")">>,
     repr |-> <<cls, "(">> \o Repr(text) \o <<", ">> \o inner.repr \o <<")">>]

\* UnknownStatusError overrides __str__ (exceptions.py 25-27)
UnknownStatusError(text) ==
    [cls |-> "UnknownStatusError",
     str |-> <<"UnknownStatusError", " --> ">> \o text,
     repr |-> <<"UnknownStatusError", "(">> \o Repr(text) \o <<")">>]

\* the classes check_response raises
ShapeErrors == {"TypeError", "KeyError"}


----------------------------------------------------------------------------
(* The collaborators' behaviours: inputs of the model. *)

\* what requests.get(**request_params) does: it raises (a network failure),
\* or returns a response with a status code, a reason, a text and a body that
\* response.json() parses or rejects
HttpReply(raises, status, reason, text, jsonOk, body) ==
    [raises |-> raises, status_code |-> status, reason |-> reason, text |-> text,
     json_ok |-> jsonOk, json |-> body]

NoReply == HttpReply(TRUE, 0, "", "", FALSE, NoResponse)

HttpOutcomes ==
    {NoReply}
    \cup {HttpReply(FALSE, 503, "Service Unavailable", "down", FALSE, NoResponse),
          HttpReply(FALSE, HTTP_OK, "OK", "<html>", FALSE, NoResponse)}
    \cup {HttpReply(FALSE, HTTP_OK, "OK", "json", TRUE, r) : r \in Responses}

\* what bot.send_message does: it returns, or raises an exception of a class
NotifierOutcomes == {"ok", "TelegramError", "Exception", "NotForSend"}

NotifierError(outcome) == Exc(outcome, <<"boom">>)

----------------------------------------------------------------------------
(* The functions of homework.py. *)

Returned(v) == [raised |-> FALSE, error |-> NoError, value |-> v]

Raised(e, v) == [raised |-> TRUE, error |-> e, value |-> v]

\* check_tokens with any() in place of all()
check_tokens_any(env) ==
    \/ EnvTruthy(env.PRACTICUM_TOKEN)
    \/ EnvTruthy(env.TELEGRAM_TOKEN)
    \/ EnvTruthy(env.TELEGRAM_CHAT_ID)

\* check_tokens: all([PRACTICUM_TOKEN, TELEGRAM_TOKEN, TELEGRAM_CHAT_ID])
check_tokens(env) ==
    /\ EnvTruthy(env.PRACTICUM_TOKEN)
    /\ EnvTruthy(env.TELEGRAM_TOKEN)
    /\ EnvTruthy(env.TELEGRAM_CHAT_ID)

\* str(HEADERS)
HEADERS == <<"{'Authorization': 'OAuth ", tokens.PRACTICUM_TOKEN, "'}">>

\* request_from_date without the fallback to the clock
request_from_date_no_fallback(ts, now) == ts

\* the from_date of the request: timestamp or int(time.time())
request_from_date(ts, now) == IF Truthy(ts) THEN ts ELSE IntDate(now)

\* the text of the request in the message of line 78
request_text(ts, now) ==
    <<"Zapros: ", ENDPOINT, ", ">> \o HEADERS \o <<", ", "{'from_date': ">>
    \o DateStr(request_from_date(ts, now)) \o <<"}", ".">>

\* the WrongResponseCode of line 70
status_error(reply) ==
    Exc("WrongResponseCode",
        <<"Otvet API ne vozvrashhaet 200. ", "Kod otveta: ">>
        \o IntStr(reply.status_code)
        \o <<". ", "Prichina: ", reply.reason, ". ", "Tekst: ", reply.text, ".">>)

\* request_error without the comparison of the status code
request_error_any_status(reply) ==
    IF reply.raises THEN Exc("ConnectionError", <<"connection refused">>)
    ELSE IF ~reply.json_ok /\ reply.status_code = HTTP_OK
         THEN Exc("JSONDecodeError", <<"Expecting value">>)
    ELSE NoError

\* the exception the try block of get_api_answer raises, NoError if none
request_error(reply) ==
    IF reply.raises THEN Exc("ConnectionError", <<"connection refused">>)
    ELSE IF reply.status_code # HTTP_OK THEN status_error(reply)
    ELSE IF ~reply.json_ok THEN Exc("JSONDecodeError", <<"Expecting value">>)
    ELSE NoError

\* get_api_answer(timestamp) when the clock shows now and requests.get does reply
get_api_answer(ts, now, reply) ==
    IF request_error(reply) # NoError
    THEN Raised(Exc2("WrongResponseCode",
                     <<"API ne vozvrashhaet 200. ">> \o request_text(ts, now),
                     request_error(reply)),
                NoResponse)
    ELSE Returned(reply.json)

\* response.get('current_date') without the default
next_timestamp_no_default(resp, now) == resp.current_date

\* response.get('current_date', int(time.time())) of main
next_timestamp(resp, now) ==
    IF resp.hasDate THEN resp.current_date ELSE IntDate(now)

\* check_response without the test for the key current_date
check_response_no_date_test(resp) ==
    IF ~resp.isDict
    THEN Raised(Exc("TypeError", <<"Nepravilnyj tip dannyh otveta servera: ">>), <<>>)
    ELSE IF ~resp.hasHomeworks
    THEN Raised(Exc("KeyError", <<"Otvet servera ne soderzhit kljuch \"homeworks\": ">>),
                <<>>)
    ELSE IF resp.homeworksIsList
    THEN Returned(resp.homeworks)
    ELSE Raised(Exc("TypeError", <<"Nepravilnyj tip dannyh otveta servera">>), <<>>)

\* check_response(response)
check_response(resp) ==
    IF ~resp.isDict
    THEN Raised(Exc("TypeError",
                    <<"Nepravilnyj tip dannyh otveta servera: ">>
                    \o TypeStr(resp.isDict)), <<>>)
    ELSE IF ~resp.hasHomeworks
    THEN Raised(Exc("KeyError",
                    <<"Otvet servera ne soderzhit kljuch \"homeworks\": ">>
                    \o ResponseRepr(resp)), <<>>)
    ELSE IF ~resp.hasDate
    THEN Raised(Exc("KeyError",
                    <<"Otvet servera ne soderzhit tekushhuju datu ",
                      "(kljuch \"current_date\"): ">>
                    \o ResponseRepr(resp)), <<>>)
    ELSE IF resp.homeworksIsList
    THEN Returned(resp.homeworks)
    ELSE Raised(Exc("TypeError",
                    <<"Nepravilnyj tip dannyh otveta servera s kljuchom \"homeworks\":",
                      "<class 'str'>">>), <<>>)

\* homework.get("status"): None when the key is absent
status_of(hw) == IF hw.hasStatus THEN hw.status ELSE "None"

\* homework.get("homework_name")
name_of(hw) == IF hw.hasName THEN hw.homework_name ELSE "None"

\* HOMEWORK_VERDICTS.get(status): None (falsy, here "") when it is no key
verdict_of(hw) ==
    IF hw.hasStatus /\ hw.status \in VerdictKeys THEN HOMEWORK_VERDICTS[hw.status] ELSE ""

\* parse_status looking the verdict up under a fixed key
parse_status_one_verdict(hw) ==
    IF ~hw.isDict
    THEN Raised(Exc("AttributeError", <<"'str' object has no attribute 'get'">>), <<>>)
    ELSE IF ~(hw.hasStatus /\ hw.status \in VerdictKeys)
    THEN Raised(Exc("KeyError", <<"Takogo statusa ne sushhestvuet">>), <<>>)
    ELSE IF ~hw.hasName
    THEN Raised(Exc("KeyError", <<"Takogo imeni ne sushhestvuet">>), <<>>)
    ELSE Returned(<<"Izmenilsja status proverki raboty \"", name_of(hw), "\". ",
                    HOMEWORK_VERDICTS["reviewing"]>>)

\* parse_status(homework)
parse_status(hw) ==
    IF ~hw.isDict
    THEN Raised(Exc("AttributeError", <<"'str' object has no attribute 'get'">>), <<>>)
    ELSE IF ~(hw.hasStatus /\ hw.status \in VerdictKeys)
    THEN Raised(Exc("KeyError", <<"Takogo statusa ne sushhestvuet">>), <<>>)
    ELSE IF ~hw.hasName
    THEN Raised(Exc("KeyError", <<"Takogo imeni ne sushhestvuet">>), <<>>)
    ELSE IF verdict_of(hw) = ""
    THEN Raised(Exc("KeyError",
                    <<"Otsutstvuet dokumentirovannyj status",
                      "proverki raboty \"", name_of(hw), "\"">>), <<>>)
    ELSE Returned(<<"Izmenilsja status proverki raboty \"", name_of(hw), "\". ",
                    HOMEWORK_VERDICTS[status_of(hw)]>>)

\* the exception classes send_message catches: except telegram.TelegramError
caught_by_send_message(cls) == cls = "TelegramError"

\* send_message(bot, message) when bot.send_message does outcome: the exception
\* that leaves send_message, NoError when it returns
send_message(outcome) ==
    IF outcome = "ok" \/ caught_by_send_message(outcome)
    THEN NoError
    ELSE NotifierError(outcome)

\* f'Sboj v rabote programmy: {error}'
failure_text(e) == <<FAIL_PREFIX>> \o e.str

\* the comparison of the message with prev_msg left out
differs_always(msg, prev) == TRUE

\* message != prev_msg
differs(msg, prev) == msg # prev


----------------------------------------------------------------------------
(* main. *)

Init ==
    /\ tokens \in [PRACTICUM_TOKEN : EnvValues, TELEGRAM_TOKEN : EnvValues,
                   TELEGRAM_CHAT_ID : EnvValues]
    /\ pc = "main"
    /\ timestamp = NullDate
    /\ prev_msg = EMPTY
    /\ response = NoResponse
    /\ homeworks = <<>>
    /\ message = EMPTY
    /\ error = NoError
    /\ http = NoReply
    /\ from_date = NullDate
    /\ query_time = 0
    /\ last_call = EMPTY
    /\ sent = <<>>
    /\ sleeps = <<>>
    /\ validated = FALSE
    /\ last_date = NullDate
    /\ after_valid = FALSE
    /\ raised_by = ""
    /\ prev_before = EMPTY
    /\ cursor_before = NullDate
    /\ api_called = FALSE
    /\ notified = FALSE
    /\ exit_status = EMPTY

\* lines 169-172: if not check_tokens(): sys.exit(message)
CheckTokens ==
    /\ pc = "main"
    /\ IF check_tokens(tokens)
       THEN pc' = "start" /\ UNCHANGED exit_status
       ELSE pc' = "exit" /\ exit_status' = EXIT_MESSAGE
    /\ UNCHANGED <<after_valid, raised_by, prev_before, cursor_before>>
    /\ UNCHANGED <<tokens, timestamp, prev_msg, response, homeworks, message, error,
                   http, from_date, query_time, last_call, sent, sleeps, validated,
                   last_date, api_called, notified>>

\* lines 173-178: the cursor is set from the clock, the start message is sent
\* outside any try, prev_msg is set to ''
StartUp ==
    /\ pc = "start"
    /\ \E now \in Clock, outcome \in NotifierOutcomes :
        /\ timestamp' = IntDate(now)
        /\ notified' = TRUE
        /\ error' = send_message(outcome)
        /\ pc' = IF send_message(outcome) = NoError THEN "get_api_answer" ELSE "raised"
    /\ UNCHANGED <<after_valid, raised_by, prev_before, cursor_before>>
    /\ UNCHANGED <<tokens, prev_msg, response, homeworks, message, http, from_date,
                   query_time, last_call, sent, sleeps, validated, last_date,
                   api_called, exit_status>>

\* line 182: response = get_api_answer(timestamp)
GetApiAnswer ==
    /\ pc = "get_api_answer"
    /\ \E now \in Clock, reply \in HttpOutcomes :
        /\ http' = reply
        /\ query_time' = now
        /\ from_date' = request_from_date(timestamp, now)
        /\ IF get_api_answer(timestamp, now, reply).raised
           THEN /\ error' = get_api_answer(timestamp, now, reply).error
                /\ raised_by' = "get_api_answer"
                /\ pc' = "except"
                /\ UNCHANGED response
           ELSE /\ response' = get_api_answer(timestamp, now, reply).value
                /\ raised_by' = ""
                /\ pc' = "cursor"
                /\ UNCHANGED error
    /\ api_called' = TRUE
    /\ sleeps' = <<>>
    /\ validated' = FALSE
    /\ after_valid' = validated
    /\ prev_before' = prev_msg
    /\ cursor_before' = timestamp
    /\ UNCHANGED <<tokens, timestamp, prev_msg, homeworks, message, last_call, sent,
                   last_date, notified, exit_status>>

\* lines 183-185: timestamp = response.get('current_date', int(time.time()));
\* a JSON array has no method get
AdvanceCursor ==
    /\ pc = "cursor"
    /\ IF response.isDict
       THEN /\ \E now \in Clock : timestamp' = next_timestamp(response, now)
            /\ pc' = "check_response"
            /\ UNCHANGED <<error, raised_by>>
       ELSE /\ error' = Exc("AttributeError", <<"'list' object has no attribute 'get'">>)
            /\ raised_by' = "response.get"
            /\ pc' = "except"
            /\ UNCHANGED timestamp
    /\ UNCHANGED <<after_valid, prev_before, cursor_before>>
    /\ UNCHANGED <<tokens, prev_msg, response, homeworks, message, http, from_date,
                   query_time, last_call, sent, sleeps, validated, last_date,
                   api_called, notified, exit_status>>

\* line 186: homeworks = check_response(response)
CheckResponse ==
    /\ pc = "check_response"
    /\ IF check_response(response).raised
       THEN /\ error' = check_response(response).error
            /\ raised_by' = "check_response"
            /\ pc' = "except"
            /\ UNCHANGED <<homeworks, validated, last_date>>
       ELSE /\ homeworks' = check_response(response).value
            /\ validated' = TRUE
            /\ last_date' = response.current_date
            /\ pc' = "parse_status"
            /\ UNCHANGED <<error, raised_by>>
    /\ UNCHANGED <<after_valid, prev_before, cursor_before>>
    /\ UNCHANGED <<tokens, timestamp, prev_msg, response, message, http, from_date,
                   query_time, last_call, sent, sleeps, api_called, notified,
                   exit_status>>

\* lines 187-190: message = parse_status(homeworks[0]), or the sentinel
ParseStatus ==
    /\ pc = "parse_status"
    /\ IF homeworks # <<>>
       THEN IF parse_status(homeworks[1]).raised
            THEN /\ error' = parse_status(homeworks[1]).error
                 /\ raised_by' = "parse_status"
                 /\ pc' = "except"
                 /\ UNCHANGED message
            ELSE /\ message' = parse_status(homeworks[1]).value
                 /\ pc' = "compare"
                 /\ UNCHANGED <<error, raised_by>>
       ELSE /\ message' = NO_NEW_STATUSES
            /\ pc' = "compare"
            /\ UNCHANGED <<error, raised_by>>
    /\ UNCHANGED <<after_valid, prev_before, cursor_before>>
    /\ UNCHANGED <<tokens, timestamp, prev_msg, response, homeworks, http, from_date,
                   query_time, last_call, sent, sleeps, validated, last_date,
                   api_called, notified, exit_status>>

\* lines 191-195: if message != prev_msg: send_message, prev_msg = message;
\* else logging.info(message)
SendIfNew ==
    /\ pc = "compare"
    /\ IF differs(message, prev_msg)
       THEN \E outcome \in NotifierOutcomes :
            /\ sent' = Append(sent, message)
            /\ last_call' = message
            /\ notified' = TRUE
            /\ IF send_message(outcome) = NoError
               THEN /\ prev_msg' = message
                    /\ pc' = "finally"
                    /\ UNCHANGED <<error, raised_by>>
               ELSE /\ error' = send_message(outcome)
                    /\ raised_by' = "send_message"
                    /\ pc' = "except"
                    /\ UNCHANGED prev_msg
       ELSE /\ pc' = "finally"
            /\ UNCHANGED <<sent, last_call, notified, prev_msg, error, raised_by>>
    /\ UNCHANGED <<after_valid, prev_before, cursor_before>>
    /\ UNCHANGED <<tokens, timestamp, response, homeworks, message, http, from_date,
                   query_time, sleeps, validated, last_date, api_called, exit_status>>

\* a NotForSend handler that forwards the failure like the general handler
ExceptNotForSend_forwards ==
    /\ pc = "except"
    /\ error.cls = "NotForSend"
    /\ message' = failure_text(error)
    /\ sent' = Append(sent, failure_text(error))
    /\ last_call' = failure_text(error)
    /\ prev_msg' = failure_text(error)
    /\ error' = NoError
    /\ pc' = "finally"
    /\ UNCHANGED <<after_valid, raised_by, prev_before, cursor_before>>
    /\ UNCHANGED <<tokens, timestamp, response, homeworks, http, from_date,
                   query_time, sleeps, validated, last_date,
                   api_called, notified, exit_status>>

\* lines 197-199: except NotForSend: the failure is logged only
ExceptNotForSend ==
    /\ pc = "except"
    /\ error.cls = "NotForSend"
    /\ message' = failure_text(error)
    /\ error' = NoError
    /\ pc' = "finally"
    /\ UNCHANGED <<after_valid, raised_by, prev_before, cursor_before>>
    /\ UNCHANGED <<tokens, timestamp, prev_msg, response, homeworks, http, from_date,
                   query_time, last_call, sent, sleeps, validated, last_date,
                   api_called, notified, exit_status>>

\* lines 201-206: except Exception: the failure is logged, and sent when its
\* text is not prev_msg; an exception leaving send_message here leaves main
ExceptException ==
    /\ pc = "except"
    /\ error.cls # "NotForSend"
    /\ message' = failure_text(error)
    /\ IF differs(failure_text(error), prev_msg)
       THEN \E outcome \in NotifierOutcomes :
            /\ sent' = Append(sent, failure_text(error))
            /\ last_call' = failure_text(error)
            /\ notified' = TRUE
            /\ error' = send_message(outcome)
            /\ IF send_message(outcome) = NoError
               THEN prev_msg' = failure_text(error)
               ELSE UNCHANGED prev_msg
       ELSE /\ error' = NoError
            /\ UNCHANGED <<sent, last_call, notified, prev_msg>>
    /\ pc' = "finally"
    /\ UNCHANGED <<after_valid, raised_by, prev_before, cursor_before>>
    /\ UNCHANGED <<tokens, timestamp, response, homeworks, http, from_date,
                   query_time, sleeps, validated, last_date, api_called, exit_status>>

\* a loop whose finally clause also reads the clock into the cursor
Sleep_reads_clock ==
    /\ pc = "finally"
    /\ sleeps' = Append(sleeps, RETRY_PERIOD)
    /\ pc' = IF error = NoError THEN "get_api_answer" ELSE "raised"
    /\ \E now \in Clock : timestamp' = IntDate(now)
    /\ response' = NoResponse
    /\ homeworks' = <<>>
    /\ message' = EMPTY
    /\ http' = NoReply
    /\ from_date' = NullDate
    /\ query_time' = 0
    /\ sent' = <<>>
    /\ after_valid' = FALSE
    /\ raised_by' = IF error = NoError THEN "" ELSE raised_by
    /\ prev_before' = EMPTY
    /\ cursor_before' = NullDate
    /\ UNCHANGED <<tokens, prev_msg, error, last_call, validated,
                   last_date, api_called, notified, exit_status>>

\* lines 208-209: finally: time.sleep(RETRY_PERIOD); then the next iteration,
\* or the exception that left a handler leaves main.  The locals no later
\* iteration reads before assigning them are reset here.
Sleep ==
    /\ pc = "finally"
    /\ sleeps' = Append(sleeps, RETRY_PERIOD)
    /\ pc' = IF error = NoError THEN "get_api_answer" ELSE "raised"
    /\ response' = NoResponse
    /\ homeworks' = <<>>
    /\ message' = EMPTY
    /\ http' = NoReply
    /\ from_date' = NullDate
    /\ query_time' = 0
    /\ sent' = <<>>
    /\ after_valid' = FALSE
    /\ raised_by' = IF error = NoError THEN "" ELSE raised_by
    /\ prev_before' = EMPTY
    /\ cursor_before' = NullDate
    /\ UNCHANGED <<tokens, timestamp, prev_msg, error, last_call, validated,
                   last_date, api_called, notified, exit_status>>

Next ==
    \/ CheckTokens
    \/ StartUp
    \/ GetApiAnswer
    \/ AdvanceCursor
    \/ CheckResponse
    \/ ParseStatus
    \/ SendIfNew
    \/ ExceptNotForSend
    \/ ExceptException
    \/ Sleep

Spec == Init /\ [][Next]_vars


----------------------------------------------------------------------------
(* check_response called directly on every response of the input set. *)

InitCheckResponse ==
    /\ tokens = [PRACTICUM_TOKEN |-> "secret", TELEGRAM_TOKEN |-> "secret",
                 TELEGRAM_CHAT_ID |-> "secret"]
    /\ pc = "call_check_response"
    /\ response \in Responses
    /\ timestamp = NullDate
    /\ prev_msg = EMPTY
    /\ homeworks = <<>>
    /\ message = EMPTY
    /\ error = NoError
    /\ http = NoReply
    /\ from_date = NullDate
    /\ query_time = 0
    /\ last_call = EMPTY
    /\ sent = <<>>
    /\ sleeps = <<>>
    /\ validated = FALSE
    /\ last_date = NullDate
    /\ after_valid = FALSE
    /\ raised_by = ""
    /\ prev_before = EMPTY
    /\ cursor_before = NullDate
    /\ api_called = FALSE
    /\ notified = FALSE
    /\ exit_status = EMPTY

CallCheckResponse ==
    /\ pc = "call_check_response"
    /\ IF check_response(response).raised
       THEN /\ error' = check_response(response).error
            /\ pc' = "check_response_raised"
            /\ UNCHANGED homeworks
       ELSE /\ homeworks' = check_response(response).value
            /\ pc' = "check_response_returned"
            /\ UNCHANGED error
    /\ UNCHANGED <<tokens, timestamp, prev_msg, response, message, http, from_date,
                   query_time, last_call, sent, sleeps, validated, last_date,
                   after_valid, raised_by, prev_before, cursor_before, api_called,
                   notified, exit_status>>

SpecCheckResponse == InitCheckResponse /\ [][CallCheckResponse]_vars

----------------------------------------------------------------------------
(* The properties. *)

\* the positions of main inside an iteration of the loop, after the API call
InIteration == {"cursor", "check_response", "parse_status", "compare", "except",
                "finally"}

\* bot.send_message is called in this step, inside the loop
Notifies == Len(sent') = Len(sent) + 1

\* C1: inside the loop the notifier is never called twice in a row with the
\* same text.
C1_NoRepeatedText == [][Notifies => last_call' # last_call]_vars

\* C2: a step that derives a message other than prev_msg (the status message or
\* the sentinel at line 191, the failure text at line 204) calls the notifier
\* with it, as the only call of the iteration, and makes it prev_msg.
C2_NewMessageSentOnce ==
    [][((pc = "compare" /\ message # prev_msg)
        \/ (pc = "except" /\ error.cls # "NotForSend"
            /\ failure_text(error) # prev_msg))
       => (sent' = <<message'>> /\ prev_msg' = message')]_vars

\* C3: when get_api_answer, check_response or parse_status raised in an
\* iteration, main is not left: the next iteration follows.
C3_FailureNeverEndsLoop ==
    pc = "raised" => raised_by \notin {"get_api_answer", "check_response", "parse_status"}

\* C4: no exception of bot.send_message leaves main.
C4_NotifierFailureSwallowed == pc # "raised"

\* some configuration value is missing or empty
TokenMissing == \E k \in DOMAIN tokens : tokens[k] \in {"None", ""}

\* C5: with a configuration value missing or empty main exits with a failure
\* status before the loop: no API call and no call of the notifier.
C5_MissingTokenExits ==
    TokenMissing =>
        /\ pc \in {"main", "exit"}
        /\ pc = "exit" => exit_status # EMPTY
        /\ ~api_called
        /\ ~notified

C5_Witness == TokenMissing /\ pc = "exit" /\ tokens.PRACTICUM_TOKEN = "secret"

\* C6: once the loop is entered, every iteration ends with one sleep of
\* RETRY_PERIOD = 600 seconds, exactly one sleep lies between two API calls,
\* and main never leaves the loop.
C6_OneSleepNoEnd ==
    api_called =>
        /\ pc # "raised"
        /\ pc = "get_api_answer" => sleeps = <<600>>
        /\ pc \in InIteration => sleeps = <<>>

\* C7: in the iteration after one whose response passed check_response, the
\* from_date of the request is that response's current_date, or the clock at
\* the request when current_date is falsy.
C7_NextFromDate ==
    (pc \in InIteration /\ after_valid /\ ~validated) =>
        from_date = IF Truthy(last_date) THEN last_date ELSE IntDate(query_time)

C7_Witness ==
    /\ pc = "cursor" /\ after_valid /\ ~Truthy(last_date)
    /\ from_date = IntDate(query_time) /\ cursor_before = last_date

\* C8: at the end of an iteration whose response passed check_response with an
\* empty homeworks list and current_date T, timestamp is T, and if prev_msg was
\* the sentinel when the iteration began the notifier was not called and
\* prev_msg is unchanged.
C8_EmptyListAdvancesCursor ==
    (pc = "finally" /\ validated /\ homeworks = <<>>) =>
        /\ timestamp = last_date
        /\ prev_before = NO_NEW_STATUSES => (sent = <<>> /\ prev_msg = prev_before)

C8_Witness ==
    /\ pc = "finally" /\ validated /\ homeworks = <<>>
    /\ prev_before = NO_NEW_STATUSES /\ Truthy(last_date) /\ cursor_before # last_date

\* requests.get returned a response whose status is not 200
Not200 == ~http.raises /\ http.status_code # HTTP_OK

\* C9: get_api_answer returns the parsed body only for status 200; otherwise it
\* raises WrongResponseCode and returns nothing, and for a status other than 200
\* str(error) holds the URL, the status code, the reason and the body text.
C9_ApiAnswer ==
    /\ pc = "cursor" =>
        (~http.raises /\ http.status_code = HTTP_OK /\ http.json_ok
         /\ response = http.json)
    /\ (pc \in InIteration /\ (http.raises \/ http.status_code # HTTP_OK)) =>
        raised_by = "get_api_answer"
    /\ (pc = "except" /\ raised_by = "get_api_answer") =>
        /\ error.cls = "WrongResponseCode"
        /\ response = NoResponse
        /\ Not200 =>
            /\ Contains(error.str, <<ENDPOINT>>)
            /\ Contains(error.str, IntStr(http.status_code))
            /\ Contains(error.str, <<http.reason>>)
            /\ Contains(error.str, <<http.text>>)

C9_Witness ==
    /\ pc = "except" /\ raised_by = "get_api_answer" /\ Not200
    /\ Contains(error.str, <<"5", "0", "3">>)

\* the shapes C10 lists: not a mapping, no key homeworks, no key
\* current_date, homeworks not a list
BadShape(r) == ~r.isDict \/ ~r.hasHomeworks \/ ~r.hasDate \/ ~r.homeworksIsList

\* C10: check_response raises TypeError or KeyError exactly for the responses
\* that are no mapping, lack homeworks, lack current_date or hold a homeworks
\* that is no list; otherwise it returns the homeworks list as it is.
C10_CheckResponse ==
    /\ pc = "check_response_raised" =>
        (BadShape(response) /\ error.cls \in ShapeErrors)
    /\ pc = "check_response_returned" =>
        (~BadShape(response) /\ error = NoError /\ homeworks = response.homeworks)

C10_Witness ==
    /\ pc = "check_response_raised" /\ response.isDict /\ response.hasHomeworks
    /\ response.homeworksIsList /\ ~response.hasDate /\ error.cls = "KeyError"


\* the record main hands to parse_status: homeworks[0], a JSON object
Parsed == pc \in {"compare", "except", "finally"} /\ homeworks # <<>> /\ homeworks[1].isDict

\* the status of the record is a key of HOMEWORK_VERDICTS
Recognized(hw) == hw.hasStatus /\ hw.status \in {"approved", "reviewing", "rejected"}

\* the text the claim names for each status
VerdictText(status) ==
    CASE status = "approved"  -> "Rabota proverena: revjueru vsjo ponravilos. Ura!"
      [] status = "reviewing" -> "Rabota vzjata na proverku revjuerom."
      [] status = "rejected"  -> "Rabota proverena: u revjuera est zamechanija."

\* parse_status returned a message that holds the name and the verdict of hw
NamedVerdict(hw) ==
    /\ raised_by # "parse_status"
    /\ pc = "compare" =>
        /\ Contains(message, <<hw.homework_name>>)
        /\ Contains(message, <<VerdictText(hw.status)>>)

\* C11 as stated: for every record with a status among approved, reviewing,
\* rejected, parse_status raises nothing and returns a message that holds the
\* name of the record and the verdict text of its status.
C11_RecognizedNeverRaises ==
    (Parsed /\ Recognized(homeworks[1])) => NamedVerdict(homeworks[1])

\* C11, amended: the same for every record that has the key homework_name and
\* a status among approved, reviewing, rejected.
C11_NamedRecognized ==
    (Parsed /\ Recognized(homeworks[1]) /\ homeworks[1].hasName)
        => NamedVerdict(homeworks[1])

C11_Witness ==
    /\ pc = "compare" /\ homeworks # <<>>
    /\ homeworks[1].homework_name = "hw2" /\ homeworks[1].status = "rejected"
    /\ Contains(message, <<"hw2">>)


\* C12: for every record whose status is unrecognized or absent, or that lacks
\* the key homework_name, parse_status raises UnknownStatusError and returns no
\* message.
C12_RaisesUnknownStatusError ==
    (Parsed /\ (~Recognized(homeworks[1]) \/ ~homeworks[1].hasName)) =>
        /\ raised_by = "parse_status"
        /\ pc = "except" => error.cls = "UnknownStatusError"


\* the iteration is past a failure of the call named by raised_by
FailedIn(calls) == pc \in {"except", "finally"} /\ raised_by \in calls

\* C13 as stated: in an iteration where check_response raises, the cursor keeps
\* the value it had before the iteration.
C13_CursorKeptOnShapeError ==
    FailedIn({"check_response"}) => timestamp = cursor_before

\* C13, amended: the cursor is assigned before check_response is called; in an
\* iteration where check_response raises it is the current_date of the response
\* when the response has that key, and a reading of the clock when it has not.
\* It keeps its value when get_api_answer raises or the response is no mapping.
C13_CursorSetBeforeValidation ==
    /\ FailedIn({"check_response"}) =>
        IF response.hasDate
        THEN timestamp = response.current_date
        ELSE \E now \in Clock : timestamp = IntDate(now)
    /\ FailedIn({"get_api_answer", "response.get"}) => timestamp = cursor_before

C13_Witness ==
    /\ pc = "finally" /\ raised_by = "check_response"
    /\ response.hasDate /\ ~response.hasHomeworks
    /\ timestamp = response.current_date /\ timestamp # cursor_before


\* C14: in an iteration where get_api_answer raises, no step changes the cursor,
\* which is still the value the failed query was made with when the loop goes
\* on to the next query; prev_msg changes in the handler only, and only to the
\* failure text, which then differs from the value prev_msg had.
C14_TransportFailureFrame ==
    [][FailedIn({"get_api_answer"}) =>
        /\ timestamp = cursor_before
        /\ timestamp' = timestamp
        /\ pc = "except" =>
            /\ prev_msg = prev_before
            /\ \/ prev_msg' = prev_msg
               \/ prev_msg' = message' /\ message' # prev_msg
            /\ message' = <<FAIL_PREFIX>> \o error.str
        /\ pc = "finally" =>
            /\ prev_msg' = prev_msg
            /\ prev_msg \in {prev_before, message}]_vars

C14_Witness ==
    /\ pc = "finally" /\ raised_by = "get_api_answer" /\ error = NoError
    /\ timestamp = cursor_before
    /\ prev_msg = message /\ prev_msg # prev_before


\* the iteration raised out of its one call of the notifier and the handler
\* made no second call
HandledUnsent ==
    pc = "finally" /\ raised_by = "send_message" /\ Len(sent) = 1

C16_PrevMsgIsLastHanded ==
    pc \in {"get_api_answer", "cursor", "check_response", "parse_status",
            "compare", "finally"} => prev_msg = last_call


====
